---- MODULE Spec2Model ----
(***************************************************************************)
(* Event-sourced aggregates, the optimistic-concurrency event store and    *)
(* the command handlers of the e-commerce services.                        *)
(*                                                                         *)
(*   SpecStore   clients call PostgreSQLEventStore.saveEvents directly,    *)
(*               every statement of the transaction being a step           *)
(*   SpecAgg     the aggregates' fromEvents / create as pure functions     *)
(*   Spec        the command handlers (load, command, save, publish) of    *)
(*               the five services, over an initially empty event log      *)
(*   SpecSeeded  the same handlers over an event log that already holds    *)
(*               one stream (the database outlives the service:            *)
(*               CREATE TABLE IF NOT EXISTS)                               *)
(*   SpecCmd     one aggregate in memory: Aggregate.create and then its    *)
(*               command methods, called one after the other               *)
(*   SpecBus     one service's RabbitMQEventBus consuming its queue:       *)
(*               connect, subscribe, deliveries, handler calls, ack/nack,  *)
(*               crash and restart                                         *)
(*   SpecFeed    rows inserted into the events table, then read page by    *)
(*               page with getAllEvents                                    *)
(***************************************************************************)
EXTENDS Integers, Sequences, FiniteSets, TLC

\* ------------------------------------------------------------------ bounds
NumProcs == 2
MaxCommands == 2
MaxStoreCalls == 2
MaxBatch == 2
MaxReplay == 3
MaxCalls == 3
MaxMessages == 2
MaxHandlers == 2
MaxDeliveries == 3
MaxRows == 3
MaxPages == 4

Procs == 1..NumProcs

\* Inventory.create's default threshold (also the handler's `|| 10`)
DefaultLowStockThreshold == 10

Kinds == {"User", "Product", "Order", "Payment", "Inventory"}

VARIABLES
    events,      \* the rows of the events table, in commit order
    pc,          \* per process: where its handler / saveEvents call stands
    tx,          \* per process: the open transaction of saveEvents
    h,           \* per process: the running command handler invocation
    bus,         \* messages published to the 'events' exchange, in order
    cmdCount,    \* number of handler invocations (or store calls) started
    succeeded,   \* per aggregate id: handler invocations that returned normally
    subject,     \* SpecAgg, SpecCmd: the aggregate under construction / replay / command
    mq,          \* SpecBus: a service's RabbitMQEventBus and its queue at the broker
    feed         \* SpecFeed: the events table and a reader of the global feed

vars == <<events, pc, tx, h, bus, cmdCount, succeeded, subject, mq, feed>>

\* ------------------------------------------------------------------ events

\* new Event(eventType, aggregateId, data): a domain event object. `val` is the
\* one number of `data` the aggregates read; `eid` stands for the uuid eventId.
Event(eventType, aggregateId, val, eid) ==
    [eventType |-> eventType, aggregateId |-> aggregateId, shape |-> "domain",
     val |-> val, eid |-> eid]

\* new StockReserved / StockReleased / StockAllocated(aggregateId, {orderId,
\* quantity, ...}): the events of a reservation carry the order's id as well.
StockEvent(eventType, aggregateId, orderId, quantity, eid) ==
    [eventType |-> eventType, aggregateId |-> aggregateId, shape |-> "domain",
     val |-> quantity, eid |-> eid, orderId |-> orderId]

\* A row of getEvents' result: the payload sits in `eventData`, there is no
\* `data` property and no toJSON method.
StoredEvent(row) ==
    [eventType |-> row.eventType, aggregateId |-> row.aggregateId, shape |-> "stored",
     val |-> row.val, eid |-> row.eid]

\* EventSourcedUserRepository.mapStoredEventToDomainEvent: rebuilds a domain
\* event from eventData; an event type outside the switch throws.
UserEventTypes ==
    {"UserRegistered", "UserProfileUpdated", "UserPasswordChanged", "UserEmailVerified",
     "UserDeactivated", "UserReactivated", "UserAddressAdded", "UserAddressUpdated",
     "UserAddressRemoved"}

Thrown == [kind |-> "thrown"]
DomainError == [kind |-> "domainError"]
NoAgg == [kind |-> "none"]

mapStoredEventToDomainEvent(se) ==
    IF se.eventType \in UserEventTypes
    THEN [se EXCEPT !.shape = "domain"]
    ELSE Thrown

\* Apply handlers that read a property of `event.data`: on a StoredEvent
\* `event.data` is undefined and the read raises a TypeError.
DerefsData ==
    {"OrderCreated", "OrderConfirmed", "OrderCancelled",
     "PaymentRequested", "PaymentProcessed", "PaymentFailed", "PaymentRefunded",
     "PaymentCancelled",
     "ProductCreated", "ProductUpdated", "ProductDiscontinued",
     "InventoryItemCreated", "StockUpdated", "StockReserved", "StockReleased",
     "StockAllocated", "InventoryThresholdUpdated"}

\* ------------------------------------------------------------------ aggregates

\* OrderAddress's schema: street, city, state, zipCode and country are
\* Joi.string().min(1).required(), which rejects the empty string.
OrderAddressSchemaAccepts(street) == street # ""

\* ProductPrice's schema: amount is Joi.number().positive(), which rejects 0.
ProductPriceSchemaAccepts(amount) == amount > 0

\* The fields of a freshly constructed aggregate.
InitialFields(kind, id) ==
    [kind |-> kind, id |-> id, version |-> 0, uncommittedEvents |-> <<>>,
     status |-> IF kind \in {"Order", "Payment"} THEN "pending" ELSE "",
     isActive |-> FALSE,
     currentStock |-> 0, reservedStock |-> 0,
     lowStockThreshold |-> IF kind = "Inventory" THEN DefaultLowStockThreshold ELSE 0,
     reservations |-> {}, addresses |-> {},
     items |-> <<>>, totalAmount |-> 0, amount |-> 0]

\* new User(id) / new Product(id) / new Order(id) / new Payment(id) / new Inventory(id).
\* The Order constructor builds its two placeholder addresses with
\* new OrderAddress({street: '', ...}) and the Product constructor its
\* placeholder price with new ProductPrice({amount: 0, ...}): the value
\* objects validate their data and throw when the schema rejects it.
NewAggregate(kind, id) ==
    IF kind = "Order" /\ ~OrderAddressSchemaAccepts("") THEN Thrown
    ELSE IF kind = "Product" /\ ~ProductPriceSchemaAccepts(0) THEN Thrown
    ELSE InitialFields(kind, id)

OrderApply(ag, e) ==
    CASE e.eventType = "OrderCreated" -> ag
      [] e.eventType = "OrderConfirmed" -> [ag EXCEPT !.status = "confirmed"]
      [] e.eventType = "OrderPaymentFailed" -> [ag EXCEPT !.status = "pending"]
      [] e.eventType = "OrderCancelled" -> [ag EXCEPT !.status = "cancelled"]
      [] OTHER -> ag

PaymentApply(ag, e) ==
    CASE e.eventType = "PaymentRequested" ->
            [ag EXCEPT !.status = "pending", !.amount = e.val]
      [] e.eventType = "PaymentProcessed" -> [ag EXCEPT !.status = "completed"]
      [] e.eventType = "PaymentFailed" -> [ag EXCEPT !.status = "failed"]
      [] e.eventType = "PaymentRefunded" -> [ag EXCEPT !.status = "refunded"]
      [] e.eventType = "PaymentCancelled" -> [ag EXCEPT !.status = "cancelled"]
      [] OTHER -> ag

ProductApply(ag, e) ==
    CASE e.eventType = "ProductCreated" -> [ag EXCEPT !.isActive = TRUE]
      [] e.eventType = "ProductUpdated" -> ag
      [] e.eventType = "ProductDiscontinued" -> [ag EXCEPT !.isActive = FALSE]
      [] e.eventType = "ProductReactivated" -> [ag EXCEPT !.isActive = TRUE]
      [] OTHER -> ag

\* this.reservations.get(`${this.id}-${orderId}`): the entries of the Map
\* under the order's key (none or one).
ReservationsOf(ag, orderId) == {r \in ag.reservations : r.orderId = orderId}

\* Inventory.applyStockReserved: Map.set replaces an entry under the same key
applyStockReserved(ag, e) ==
    [ag EXCEPT !.reservations =
                  (@ \ ReservationsOf(ag, e.orderId))
                    \cup {[orderId |-> e.orderId, quantity |-> e.val, isAllocated |-> FALSE]},
               !.reservedStock = @ + e.val]

\* Inventory.applyStockReleased
applyStockReleased(ag, e) ==
    IF ReservationsOf(ag, e.orderId) = {} THEN ag
    ELSE LET reservation == CHOOSE r \in ReservationsOf(ag, e.orderId) : TRUE IN
         [ag EXCEPT !.reservedStock = @ - reservation.quantity,
                    !.reservations = @ \ {reservation}]

\* Inventory.applyStockAllocated
applyStockAllocated(ag, e) ==
    IF ReservationsOf(ag, e.orderId) = {} THEN ag
    ELSE LET reservation == CHOOSE r \in ReservationsOf(ag, e.orderId) : TRUE IN
         [ag EXCEPT !.reservations =
                       (@ \ {reservation}) \cup {[reservation EXCEPT !.isAllocated = TRUE]},
                    !.currentStock = @ - e.val,
                    !.reservedStock = @ - e.val]

InventoryApply(ag, e) ==
    CASE e.eventType = "InventoryItemCreated" ->
            [ag EXCEPT !.currentStock = e.val,
                       !.lowStockThreshold = DefaultLowStockThreshold]
      [] e.eventType = "StockUpdated" -> [ag EXCEPT !.currentStock = e.val]
      [] e.eventType = "StockReserved" -> applyStockReserved(ag, e)
      [] e.eventType = "StockReleased" -> applyStockReleased(ag, e)
      [] e.eventType = "StockAllocated" -> applyStockAllocated(ag, e)
      [] e.eventType = "InventoryThresholdUpdated" -> [ag EXCEPT !.lowStockThreshold = e.val]
      [] OTHER -> ag

\* User.apply: `val` of the address events is the address's id.
UserApply(ag, e) ==
    CASE e.eventType = "UserRegistered" -> [ag EXCEPT !.isActive = TRUE, !.addresses = {}]
      [] e.eventType = "UserDeactivated" -> [ag EXCEPT !.isActive = FALSE]
      [] e.eventType = "UserReactivated" -> [ag EXCEPT !.isActive = TRUE]
      [] e.eventType = "UserAddressAdded" -> [ag EXCEPT !.addresses = @ \cup {e.val}]
      [] e.eventType = "UserAddressRemoved" -> [ag EXCEPT !.addresses = @ \ {e.val}]
      [] OTHER -> ag

\* apply(event): the switch on eventType; no default branch, so an unknown
\* type changes nothing. A handler that reads event.data throws on a StoredEvent.
apply(ag, e) ==
    IF e.shape = "stored" /\ e.eventType \in DerefsData THEN Thrown
    ELSE CASE ag.kind = "Order" -> OrderApply(ag, e)
           [] ag.kind = "Payment" -> PaymentApply(ag, e)
           [] ag.kind = "Product" -> ProductApply(ag, e)
           [] ag.kind = "Inventory" -> InventoryApply(ag, e)
           [] ag.kind = "User" -> UserApply(ag, e)

\* Order/Payment/Product/Inventory.applyEvent: apply, version++, push.
applyEvent(ag, e) ==
    IF ag = Thrown THEN Thrown
    ELSE LET a == apply(ag, e) IN
         IF a = Thrown THEN Thrown
         ELSE [a EXCEPT !.version = @ + 1,
                        !.uncommittedEvents = Append(@, e)]

RECURSIVE FoldApplyEvent(_, _)
FoldApplyEvent(ag, es) ==
    IF es = <<>> THEN ag
    ELSE FoldApplyEvent(applyEvent(ag, Head(es)), Tail(es))

RECURSIVE FoldApply(_, _)
FoldApply(ag, es) ==
    IF es = <<>> \/ ag = Thrown THEN ag
    ELSE FoldApply(apply(ag, Head(es)), Tail(es))

\* fromEvents with every aggregate, User included, replayed through applyEvent.
fromEventsKeepingReplayed(kind, id, es) ==
    FoldApplyEvent(NewAggregate(kind, id), es)

\* static fromEvents(id, events). User folds through apply and then sets
\* version and uncommittedEvents; the other four fold through applyEvent.
fromEvents(kind, id, es) ==
    IF kind = "User"
    THEN LET u == FoldApply(NewAggregate(kind, id), es) IN
         IF u = Thrown THEN Thrown
         ELSE [u EXCEPT !.version = Len(es), !.uncommittedEvents = <<>>]
    ELSE FoldApplyEvent(NewAggregate(kind, id), es)

CreationType(kind) ==
    CASE kind = "User" -> "UserRegistered"
      [] kind = "Product" -> "ProductCreated"
      [] kind = "Order" -> "OrderCreated"
      [] kind = "Payment" -> "PaymentRequested"
      [] kind = "Inventory" -> "InventoryItemCreated"

\* static create(id, ...). User.create only applies the event: it neither
\* counts it in version nor records it as uncommitted.
create(kind, id, val, eid) ==
    IF kind = "User"
    THEN apply(NewAggregate(kind, id), Event(CreationType(kind), id, val, eid))
    ELSE applyEvent(NewAggregate(kind, id), Event(CreationType(kind), id, val, eid))

getUncommittedEvents(ag) == ag.uncommittedEvents

markEventsAsCommitted(ag) == [ag EXCEPT !.uncommittedEvents = <<>>]

\* ------------------------------------------------------------------ commands

\* The command methods the modelled handlers call. Each returns the aggregate
\* after the command, or DomainError when its precondition fails.
\* `c` numbers the handler invocation: the events it creates are <<c, 1>>, <<c, 2>>.

\* Order.confirm
confirm(ag, c) ==
    IF ag.status # "pending" THEN DomainError
    ELSE applyEvent(ag, Event("OrderConfirmed", ag.id, 0, <<c, 1>>))

\* PaymentCommandHandlers.cancelPayment's status check, then Payment.cancel
cancel(ag, c) ==
    IF ag.status # "pending" THEN DomainError
    ELSE applyEvent(ag, Event("PaymentCancelled", ag.id, 0, <<c, 1>>))

\* Product.updateProduct (isActive left undefined by the command)
updateProduct(ag, c) ==
    IF ~ag.isActive THEN DomainError
    ELSE applyEvent(ag, Event("ProductUpdated", ag.id, 0, <<c, 1>>))

Max0(n) == IF n < 0 THEN 0 ELSE n

\* getAvailableStock without the reserved units taken off.
getAvailableStockOfAllStock(ag) == Max0(ag.currentStock)

\* Inventory.getAvailableStock
getAvailableStock(ag) == Max0(ag.currentStock - ag.reservedStock)

\* Inventory.checkStockAlerts
checkStockAlerts(ag, c) ==
    IF getAvailableStock(ag) = 0
    THEN applyEvent(ag, Event("OutOfStockAlert", ag.id, 0, <<c, 2>>))
    ELSE IF getAvailableStock(ag) <= ag.lowStockThreshold
         THEN applyEvent(ag, Event("LowStockAlert", ag.id, 0, <<c, 2>>))
         ELSE ag

\* Inventory.updateStock(newStock, reason, 'set')
updateStock(ag, newStock, c) ==
    checkStockAlerts(applyEvent(ag, Event("StockUpdated", ag.id, Max0(newStock), <<c, 1>>)), c)

\* User.updateProfile: applies one event object and pushes another one
updateProfile(ag, c) ==
    IF ~ag.isActive THEN DomainError
    ELSE LET a == apply(ag, Event("UserProfileUpdated", ag.id, 0, <<c, 1>>)) IN
         [a EXCEPT !.uncommittedEvents =
                      Append(@, Event("UserProfileUpdated", ag.id, 0, <<c, 2>>))]

\* User.deactivate
deactivate(ag, c) ==
    IF ~ag.isActive THEN DomainError
    ELSE LET a == apply(ag, Event("UserDeactivated", ag.id, 0, <<c, 1>>)) IN
         [a EXCEPT !.uncommittedEvents =
                      Append(@, Event("UserDeactivated", ag.id, 0, <<c, 2>>))]

\* The User commands all apply one event object and push a second one built
\* from the same data.
UserEmits(ag, eventType, val, c) ==
    LET a == apply(ag, Event(eventType, ag.id, val, <<c, 1>>)) IN
    [a EXCEPT !.uncommittedEvents = Append(@, Event(eventType, ag.id, val, <<c, 2>>))]

\* changePassword without the isActive check.
changePasswordOfAnyUser(ag, c) ==
    UserEmits(ag, "UserPasswordChanged", 0, c)

\* User.changePassword
changePassword(ag, c) ==
    IF ~ag.isActive THEN DomainError
    ELSE UserEmits(ag, "UserPasswordChanged", 0, c)

\* User.verifyEmail
verifyEmail(ag, c) ==
    IF ~ag.isActive THEN DomainError
    ELSE UserEmits(ag, "UserEmailVerified", 0, c)

\* User.reactivate
reactivate(ag, c) ==
    IF ag.isActive THEN DomainError
    ELSE UserEmits(ag, "UserReactivated", 0, c)

\* User.addAddress: the new address gets a fresh uuid, here the call's number.
addAddress(ag, c) ==
    IF ~ag.isActive THEN DomainError
    ELSE UserEmits(ag, "UserAddressAdded", c, c)

\* User.updateAddress
updateAddress(ag, addressId, c) ==
    IF ~ag.isActive THEN DomainError
    ELSE IF addressId \notin ag.addresses THEN DomainError
    ELSE UserEmits(ag, "UserAddressUpdated", addressId, c)

\* User.removeAddress
removeAddress(ag, addressId, c) ==
    IF ~ag.isActive THEN DomainError
    ELSE IF addressId \notin ag.addresses THEN DomainError
    ELSE UserEmits(ag, "UserAddressRemoved", addressId, c)

\* How a command method called on its own ends: it returned, or it threw,
\* and `ag` is the aggregate as the call left it.
Return(ag) == [ag |-> ag, threw |-> FALSE]
Raise(ag) == [ag |-> ag, threw |-> TRUE]

\* reserveStock with the event applied before the availability check.
reserveStockApplyFirst(ag, orderId, quantity, c) ==
    IF quantity <= 0 THEN Raise(ag)
    ELSE LET applied == applyEvent(ag, StockEvent("StockReserved", ag.id, orderId, quantity, <<c, 1>>))
         IN IF getAvailableStock(ag) < quantity THEN Raise(applied) ELSE Return(applied)

\* Inventory.reserveStock(orderId, quantity, expiresAt)
reserveStock(ag, orderId, quantity, c) ==
    IF quantity <= 0 THEN Raise(ag)
    ELSE IF getAvailableStock(ag) < quantity THEN Raise(ag)
    ELSE Return(applyEvent(ag, StockEvent("StockReserved", ag.id, orderId, quantity, <<c, 1>>)))

\* Inventory.releaseStock(orderId, reason)
releaseStock(ag, orderId, c) ==
    IF ReservationsOf(ag, orderId) = {} THEN Raise(ag)
    ELSE LET reservation == CHOOSE r \in ReservationsOf(ag, orderId) : TRUE IN
         Return(applyEvent(ag, StockEvent("StockReleased", ag.id, orderId,
                                          reservation.quantity, <<c, 1>>)))

\* Inventory.allocateStock(orderId, quantity)
allocateStock(ag, orderId, quantity, c) ==
    IF ReservationsOf(ag, orderId) = {} THEN Raise(ag)
    ELSE LET reservation == CHOOSE r \in ReservationsOf(ag, orderId) : TRUE IN
         IF reservation.quantity < quantity THEN Raise(ag)
         ELSE Return(applyEvent(ag, StockEvent("StockAllocated", ag.id, orderId,
                                               quantity, <<c, 1>>)))

\* Inventory.updateLowStockThreshold(newThreshold)
updateLowStockThreshold(ag, newThreshold, c) ==
    IF newThreshold < 0 THEN Raise(ag)
    ELSE Return(applyEvent(ag, Event("InventoryThresholdUpdated", ag.id, newThreshold, <<c, 1>>)))

\* Payment.processPayment
processPayment(ag, c) ==
    IF ag.status # "pending" THEN Raise(ag)
    ELSE Return(applyEvent(ag, Event("PaymentProcessed", ag.id, ag.amount, <<c, 1>>)))

\* markAsFailed without its status check.
markAsFailedInAnyStatus(ag, c) ==
    Return(applyEvent(ag, Event("PaymentFailed", ag.id, 0, <<c, 1>>)))

\* Payment.markAsFailed
markAsFailed(ag, c) ==
    IF ag.status # "pending" /\ ag.status # "processing" THEN Raise(ag)
    ELSE Return(applyEvent(ag, Event("PaymentFailed", ag.id, 0, <<c, 1>>)))

\* Payment.refund(refundId, refundAmount, ...)
refund(ag, refundAmount, c) ==
    IF ag.status # "completed" THEN Raise(ag)
    ELSE IF refundAmount > ag.amount THEN Raise(ag)
    ELSE Return(applyEvent(ag, Event("PaymentRefunded", ag.id, refundAmount, <<c, 1>>)))

UpdateOps ==
    {"confirmOrder", "cancelPayment", "updateProduct", "updateStock",
     "handleUpdateProfile", "handleDeactivateUser"}

KindOfOp(op) ==
    CASE op = "confirmOrder" -> "Order"
      [] op \in {"cancelPayment", "refundPayment"} -> "Payment"
      [] op = "updateProduct" -> "Product"
      [] op = "updateStock" -> "Inventory"
      [] op \in {"handleUpdateProfile", "handleDeactivateUser"} -> "User"

\* The command method a handler runs on the loaded aggregate.
Command(op, ag, val, c) ==
    CASE op = "confirmOrder" -> confirm(ag, c)
      [] op = "cancelPayment" -> cancel(ag, c)
      [] op = "refundPayment" ->
            LET refunded == refund(ag, val, c) IN
            IF refunded.threw THEN DomainError ELSE refunded.ag
      [] op = "updateProduct" -> updateProduct(ag, c)
      [] op = "updateStock" -> updateStock(ag, val, c)
      [] op = "handleUpdateProfile" -> updateProfile(ag, c)
      [] op = "handleDeactivateUser" -> deactivate(ag, c)

\* ------------------------------------------------------------------ event store

Ids == 0..MaxCommands

\* SELECT COALESCE(MAX(version), 0) FROM events WHERE aggregate_id = $1, as the
\* statement sees it under READ COMMITTED (the isolation level of a plain
\* BEGIN): the committed rows. The transaction has inserted nothing yet.
MaxVersionIn(rows, aggregateId) ==
    LET vs == {rows[i].version : i \in {j \in 1..Len(rows) : rows[j].aggregateId = aggregateId}}
    IN IF vs = {} THEN 0 ELSE CHOOSE v \in vs : \A w \in vs : w <= v

CurrentVersion(aggregateId) == MaxVersionIn(events, aggregateId)

\* saveEvents' check with the comparison weakened to "the stream is ahead":
\* an expectedVersion beyond the current version would pass.
VersionMismatchOnlyBehind(currentVersion, expectedVersion) ==
    currentVersion > expectedVersion

\* saveEvents' check: if (currentVersion !== expectedVersion) throw
VersionMismatch(currentVersion, expectedVersion) == currentVersion # expectedVersion

\* The row the i-th (0-based) INSERT of saveEvents writes.
InsertedRow(aggregateId, e, expectedVersion, i) ==
    [aggregateId |-> aggregateId, eventType |-> e.eventType, val |-> e.val,
     version |-> expectedVersion + i + 1, eid |-> e.eid]

RowIndexes(aggregateId, fromVersion) ==
    {i \in 1..Len(events) :
        events[i].aggregateId = aggregateId /\ events[i].version > fromVersion}

\* getEvents(aggregateId, fromVersion): WHERE aggregate_id = $1 AND version > $2
\* ORDER BY version ASC. Rows of equal version come in either order: the set of
\* the results the query may return.
getEvents(aggregateId, fromVersion) ==
    LET S == RowIndexes(aggregateId, fromVersion)
        n == Cardinality(S)
        orders == {f \in [1..n -> S] :
                      /\ \A a, b \in 1..n : a # b => f[a] # f[b]
                      /\ \A a, b \in 1..n : a < b => events[f[a]].version <= events[f[b]].version}
    IN {[k \in 1..n |-> StoredEvent(events[f[k]])] : f \in orders}

IdleTx == [aggregateId |-> 0, batch |-> <<>>, expectedVersion |-> 0, i |-> 0, pending |-> <<>>]

IdleH ==
    [cmd |-> 0, op |-> "none", kind |-> "none", id |-> 0, ag |-> NoAgg, queue |-> <<>>,
     outcome |-> "none", loadedMax |-> 0, valid |-> FALSE, interfered |-> FALSE,
     raisedFor |-> <<>>, recovering |-> FALSE, error |-> "none"]

\* ------------------------------------------------------------------ repositories and handlers

\* Repository.save's expectedVersion argument.
\* Order/Payment/Inventory: getVersion() - events.length; Product/User: getVersion().
ExpectedVersion(ag) ==
    IF ag.kind \in {"Product", "User"}
    THEN ag.version
    ELSE ag.version - Len(getUncommittedEvents(ag))

\* What Repository.save does with the aggregate once saveEvents has returned:
\* the Product and User repositories call markEventsAsCommitted, the others do not.
RepoAfterSave(ag) ==
    IF ag.kind \in {"Product", "User"} THEN markEventsAsCommitted(ag) ELSE ag

\* The handler going on to publishEvents whether or not save threw.
AfterSaveUnchecked(hh, result) ==
    LET ag == RepoAfterSave(hh.ag) IN
    [hh EXCEPT !.ag = ag, !.queue = getUncommittedEvents(ag)]

\* The handler after `await repository.save(aggregate)`: when save threw, the
\* catch block rethrows; otherwise publishEvents(aggregate.getUncommittedEvents()).
AfterSave(hh, result) ==
    IF result # "ok"
    THEN [hh EXCEPT !.outcome = result, !.queue = <<>>]
    ELSE LET ag == RepoAfterSave(hh.ag) IN
         [hh EXCEPT !.ag = ag, !.queue = getUncommittedEvents(ag)]

\* The handler once nothing is left to publish: markEventsAsCommitted, return.
HandlerReturns(hh) ==
    [hh EXCEPT !.ag = markEventsAsCommitted(hh.ag), !.outcome = "ok"]

\* Continue the handler of p after saveEvents ended with `result`.
Resume(p, hh, result) ==
    LET h1 == AfterSave(hh, result) IN
    IF hh.op = "raw"
    THEN /\ h' = [h EXCEPT ![p] = [hh EXCEPT !.outcome = result]]
         /\ pc' = [pc EXCEPT ![p] = "done"]
    ELSE IF h1.outcome # "none"
    THEN /\ h' = [h EXCEPT ![p] = h1]
         /\ pc' = [pc EXCEPT ![p] = "done"]
    ELSE IF h1.queue = <<>>
    THEN /\ h' = [h EXCEPT ![p] = HandlerReturns(h1)]
         /\ pc' = [pc EXCEPT ![p] = "done"]
    ELSE /\ h' = [h EXCEPT ![p] = h1]
         /\ pc' = [pc EXCEPT ![p] = "publish"]

\* Repository.save(aggregate) up to the first statement of saveEvents: nothing
\* to save returns at once, otherwise the transaction is opened.
BeginSave(p, hh) ==
    IF getUncommittedEvents(hh.ag) = <<>>
    THEN /\ Resume(p, hh, "ok")
         /\ tx' = tx
    ELSE /\ tx' = [tx EXCEPT ![p] =
                     [aggregateId |-> hh.ag.id, batch |-> getUncommittedEvents(hh.ag),
                      expectedVersion |-> ExpectedVersion(hh.ag), i |-> 0, pending |-> <<>>]]
         /\ h' = [h EXCEPT ![p] = hh]
         /\ pc' = [pc EXCEPT ![p] = "txRead"]

\* Repository.findById after getEvents returned the non-empty `es`: the User
\* repository maps every StoredEvent to a domain event first, the other four
\* hand the StoredEvents to fromEvents as they are.
findById(kind, id, es) ==
    IF kind = "User"
    THEN LET mapped == [k \in 1..Len(es) |-> mapStoredEventToDomainEvent(es[k])] IN
         IF \E k \in 1..Len(es) : mapped[k] = Thrown THEN Thrown
         ELSE fromEvents(kind, id, mapped)
    ELSE fromEvents(kind, id, es)

\* The state the stream stands for: the fold of its events as domain events.
\* Used only to say whether a command is valid for the aggregate.
StateOfStream(kind, id, es) ==
    fromEvents(kind, id, [k \in 1..Len(es) |-> [es[k] EXCEPT !.shape = "domain"]])

StockValues == {0, 15}

CreateValues(kind) == IF kind = "Inventory" THEN StockValues ELSE {0}

UpdateValues(op) == IF op = "updateStock" THEN StockValues ELSE {0}

\* createOrder / createProduct / handleRegisterUser / processPayment /
\* createInventoryItem: a fresh uuid, Aggregate.create, repository.save. When
\* Aggregate.create throws, the catch block logs and rethrows.
\* (handleRegisterUser's findByEmail finds no user: the email is new.)
StartCreate(p, kind, val) ==
    /\ pc[p] = "idle"
    /\ cmdCount < MaxCommands
    /\ LET c == cmdCount + 1
           created == create(kind, c, val, <<c, 1>>)
           hh == [IdleH EXCEPT !.cmd = c, !.op = "create", !.kind = kind, !.id = c,
                               !.valid = TRUE]
       IN /\ IF created = Thrown
             THEN /\ h' = [h EXCEPT ![p] = [hh EXCEPT !.outcome = "createError"]]
                  /\ pc' = [pc EXCEPT ![p] = "done"]
                  /\ tx' = tx
             ELSE BeginSave(p, [hh EXCEPT !.ag = created])
          /\ cmdCount' = c
    /\ UNCHANGED <<events, bus, succeeded, subject, mq, feed>>

\* The streams a handler of `kind` is asked about: its own aggregates' ids,
\* and ids without any event.
IdsOfKind(kind) ==
    {id \in 0..cmdCount :
        \A i \in RowIndexes(id, 0) :
            events[i].version = 1 => events[i].eventType = CreationType(kind)}

\* confirmOrder / cancelPayment / refundPayment / updateProduct / updateStock /
\* handleUpdateProfile / handleDeactivateUser: findById, the command method,
\* repository.save.
StartUpdate(p, op, id, val) ==
    /\ pc[p] = "idle"
    /\ cmdCount < MaxCommands
    /\ id \in IdsOfKind(KindOfOp(op))
    /\ \E es \in getEvents(id, 0) :
        LET c == cmdCount + 1
            kind == KindOfOp(op)
            hh == [IdleH EXCEPT !.cmd = c, !.op = op, !.kind = kind, !.id = id,
                                !.loadedMax = CurrentVersion(id)]
            loaded == findById(kind, id, es)
            after == Command(op, loaded, val, c)
            state == StateOfStream(kind, id, es)
            ok == state # Thrown /\ Command(op, state, val, c) # DomainError
        IN /\ IF es = <<>>
              THEN /\ h' = [h EXCEPT ![p] = [hh EXCEPT !.outcome = "notFound"]]
                   /\ pc' = [pc EXCEPT ![p] = "done"]
                   /\ tx' = tx
              ELSE IF loaded = Thrown
              THEN /\ h' = [h EXCEPT ![p] = [hh EXCEPT !.outcome = "loadError", !.valid = ok]]
                   /\ pc' = [pc EXCEPT ![p] = "done"]
                   /\ tx' = tx
              ELSE IF after = DomainError
              THEN /\ h' = [h EXCEPT ![p] = [hh EXCEPT !.outcome = "domainError", !.ag = loaded]]
                   /\ pc' = [pc EXCEPT ![p] = "done"]
                   /\ tx' = tx
              ELSE BeginSave(p, [hh EXCEPT !.ag = after, !.valid = ok])
           /\ cmdCount' = c
    /\ UNCHANGED <<events, bus, succeeded, subject, mq, feed>>

\* What stripe.paymentIntents.create answers: a PaymentIntent in one of its
\* statuses, or a rejected promise.
Gateways == {"succeeded", "requires_action", "failed", "raises"}

\* processPaymentWithStripe, the try block: findById, the two checks, the
\* gateway call, processPayment or markAsFailed by the intent's status, then
\* save and publishEvents. Whatever throws lands in the catch block (Recover).
StartStripe(p, id, gateway) ==
    /\ pc[p] = "idle"
    /\ cmdCount < MaxCommands
    /\ id \in IdsOfKind("Payment")
    /\ \E es \in getEvents(id, 0) :
        LET c == cmdCount + 1
            hh == [IdleH EXCEPT !.cmd = c, !.op = "processPaymentWithStripe",
                                !.kind = "Payment", !.id = id,
                                !.loadedMax = CurrentVersion(id)]
            loaded == findById("Payment", id, es)
            state == StateOfStream("Payment", id, es)
            ok == state # Thrown /\ state.status = "pending"
            after == IF gateway = "succeeded"
                     THEN processPayment(loaded, c)
                     ELSE markAsFailed(loaded, c)
        IN /\ IF es = <<>>
              THEN /\ h' = [h EXCEPT ![p] = [hh EXCEPT !.outcome = "notFound"]]
                   /\ pc' = [pc EXCEPT ![p] = "done"]
                   /\ tx' = tx
              ELSE IF loaded = Thrown
              THEN /\ h' = [h EXCEPT ![p] = [hh EXCEPT !.outcome = "loadError", !.valid = ok]]
                   /\ pc' = [pc EXCEPT ![p] = "done"]
                   /\ tx' = tx
              ELSE IF loaded.status # "pending"
              THEN /\ h' = [h EXCEPT ![p] = [hh EXCEPT !.outcome = "domainError", !.ag = loaded]]
                   /\ pc' = [pc EXCEPT ![p] = "done"]
                   /\ tx' = tx
              ELSE IF gateway = "raises"
              THEN /\ h' = [h EXCEPT ![p] = [hh EXCEPT !.outcome = "gatewayError", !.ag = loaded,
                                                       !.valid = ok]]
                   /\ pc' = [pc EXCEPT ![p] = "done"]
                   /\ tx' = tx
              ELSE BeginSave(p, [hh EXCEPT !.ag = after.ag, !.valid = ok])
           /\ cmdCount' = c
    /\ UNCHANGED <<events, bus, succeeded, subject, mq, feed>>

\* The try block of processPaymentWithStripe has thrown and its catch block
\* has not run yet.
InCatch(p) ==
    /\ pc[p] = "done"
    /\ h[p].op = "processPaymentWithStripe"
    /\ ~h[p].recovering
    /\ h[p].outcome # "ok"

\* processPaymentWithStripe, the catch block: findById again; a payment that
\* loads and is pending is marked as failed, saved and published. Whatever this
\* throws is logged by the inner catch, and the original error is rethrown.
Recover(p) ==
    /\ InCatch(p)
    /\ \E es \in getEvents(h[p].id, 0) :
        LET hh == [h[p] EXCEPT !.recovering = TRUE, !.error = h[p].outcome]
            loaded == IF es = <<>> THEN Thrown ELSE findById("Payment", h[p].id, es)
        IN IF loaded = Thrown \/ loaded.status # "pending"
           THEN /\ h' = [h EXCEPT ![p] = hh]
                /\ UNCHANGED <<pc, tx>>
           ELSE BeginSave(p, [hh EXCEPT !.ag = markAsFailed(loaded, h[p].cmd).ag,
                                        !.outcome = "none", !.queue = <<>>])
    /\ UNCHANGED <<events, bus, cmdCount, succeeded, subject, mq, feed>>

\* saveEvents: BEGIN, the SELECT of the current version and the check. A
\* mismatch throws; the catch block rolls back and rethrows.
TxRead(p) ==
    /\ pc[p] = "txRead"
    /\ IF VersionMismatch(CurrentVersion(tx[p].aggregateId), tx[p].expectedVersion)
       THEN /\ Resume(p, h[p], "conflict")
            /\ tx' = [tx EXCEPT ![p] = IdleTx]
       ELSE /\ pc' = [pc EXCEPT ![p] = IF tx[p].batch = <<>> THEN "txCommit" ELSE "txInsert"]
            /\ UNCHANGED <<h, tx>>
    /\ UNCHANGED <<events, bus, cmdCount, succeeded, subject, mq, feed>>

\* saveEvents: one INSERT of the loop. The row stays private to the
\* transaction until COMMIT.
TxInsert(p) ==
    /\ pc[p] = "txInsert"
    /\ LET t == tx[p]
           row == InsertedRow(t.aggregateId, t.batch[t.i + 1], t.expectedVersion, t.i)
       IN /\ tx' = [tx EXCEPT ![p].pending = Append(@, row), ![p].i = @ + 1]
          /\ pc' = [pc EXCEPT ![p] = IF t.i + 1 = Len(t.batch) THEN "txCommit" ELSE "txInsert"]
    /\ UNCHANGED <<events, h, bus, cmdCount, succeeded, subject, mq, feed>>

\* saveEvents: a statement raises (the store is unreachable): ROLLBACK discards
\* the rows inserted so far and the error is rethrown.
TxFails(p) ==
    /\ pc[p] \in {"txInsert", "txCommit"}
    /\ Resume(p, h[p], "storeError")
    /\ tx' = [tx EXCEPT ![p] = IdleTx]
    /\ UNCHANGED <<events, bus, cmdCount, succeeded, subject, mq, feed>>

\* Handlers that loaded the aggregate and have not finished their save when
\* another transaction commits rows for it.
Overtaken(p) ==
    {q \in Procs \ {p} :
        /\ pc[q] \in {"txRead", "txInsert", "txCommit"}
        /\ tx[q].aggregateId = tx[p].aggregateId
        /\ tx[p].pending # <<>>}

\* saveEvents: COMMIT makes the inserted rows visible; the call returns.
TxCommit(p) ==
    /\ pc[p] = "txCommit"
    /\ events' = events \o tx[p].pending
    /\ tx' = [tx EXCEPT ![p] = IdleTx]
    /\ LET marked == [q \in Procs |->
                        IF q \in Overtaken(p) THEN [h[q] EXCEPT !.interfered = TRUE] ELSE h[q]]
           h1 == AfterSave(marked[p], "ok")
       IN IF marked[p].op = "raw"
          THEN /\ h' = [marked EXCEPT ![p].outcome = "ok"]
               /\ pc' = [pc EXCEPT ![p] = "done"]
          ELSE IF h1.queue = <<>>
          THEN /\ h' = [marked EXCEPT ![p] = HandlerReturns(h1)]
               /\ pc' = [pc EXCEPT ![p] = "done"]
          ELSE /\ h' = [marked EXCEPT ![p] = h1]
               /\ pc' = [pc EXCEPT ![p] = "publish"]
    /\ UNCHANGED <<bus, cmdCount, succeeded, subject, mq, feed>>

\* The message RabbitMQEventBus.publish routes for an event.
Message(e) == [eventType |-> e.eventType, aggregateId |-> e.aggregateId, eid |-> e.eid]

\* publishEvents: one `await this.eventBus.publish(event)` of the loop; after
\* the last one the handler marks the events committed and returns. A
\* StoredEvent has no toJSON: publish throws before routing anything.
Publish(p) ==
    /\ pc[p] = "publish"
    /\ LET e == Head(h[p].queue)
           rest == [h[p] EXCEPT !.queue = Tail(@)]
       IN IF e.shape = "stored"
          THEN /\ bus' = bus
               /\ h' = [h EXCEPT ![p] = [rest EXCEPT !.queue = <<>>, !.outcome = "busError",
                                                     !.raisedFor = e.eid]]
               /\ pc' = [pc EXCEPT ![p] = "done"]
          ELSE /\ bus' = Append(bus, Message(e))
               /\ IF rest.queue = <<>>
                  THEN /\ h' = [h EXCEPT ![p] = HandlerReturns(rest)]
                       /\ pc' = [pc EXCEPT ![p] = "done"]
                  ELSE /\ h' = [h EXCEPT ![p] = rest]
                       /\ pc' = pc
    /\ UNCHANGED <<events, tx, cmdCount, succeeded, subject, mq, feed>>

\* publish raises: the channel is gone (nothing routed), or the message was
\* routed and the xAdd to the Redis stream failed. The handler rethrows;
\* `raisedFor` is the event whose publish raised.
PublishFails(p, routed) ==
    /\ pc[p] = "publish"
    /\ Head(h[p].queue).shape = "domain"
    /\ bus' = IF routed THEN Append(bus, Message(Head(h[p].queue))) ELSE bus
    /\ h' = [h EXCEPT ![p].queue = <<>>, ![p].outcome = "busError",
                      ![p].raisedFor = Head(h[p].queue).eid]
    /\ pc' = [pc EXCEPT ![p] = "done"]
    /\ UNCHANGED <<events, tx, cmdCount, succeeded, subject, mq, feed>>

\* The handler (or the saveEvents call) has returned or thrown to its caller.
Finish(p) ==
    /\ pc[p] = "done"
    /\ ~InCatch(p)
    /\ pc' = [pc EXCEPT ![p] = "idle"]
    /\ h' = [h EXCEPT ![p] = IdleH]
    /\ succeeded' = IF h[p].outcome = "ok" /\ h[p].op # "raw" /\ ~h[p].recovering
                    THEN [succeeded EXCEPT ![h[p].id] = @ + 1]
                    ELSE succeeded
    /\ UNCHANGED <<events, tx, bus, cmdCount, subject, mq, feed>>

\* ------------------------------------------------------------------ direct store calls

StoreIds == {1, 2}

\* A client calls saveEvents(aggregateId, batch, expectedVersion) with a batch
\* of n events.
StoreCall(p, aggregateId, n, expectedVersion) ==
    /\ pc[p] = "idle"
    /\ cmdCount < MaxStoreCalls
    /\ LET c == cmdCount + 1 IN
        /\ tx' = [tx EXCEPT ![p] =
                    [aggregateId |-> aggregateId,
                     batch |-> [k \in 1..n |-> Event("E", aggregateId, 0, <<c, k>>)],
                     expectedVersion |-> expectedVersion, i |-> 0, pending |-> <<>>]]
        /\ h' = [h EXCEPT ![p] =
                    [IdleH EXCEPT !.cmd = c, !.op = "raw", !.id = aggregateId,
                                  !.loadedMax = CurrentVersion(aggregateId),
                                  !.valid = (expectedVersion = CurrentVersion(aggregateId))]]
        /\ cmdCount' = c
    /\ pc' = [pc EXCEPT ![p] = "txRead"]
    /\ UNCHANGED <<events, bus, succeeded, subject, mq, feed>>

\* ------------------------------------------------------------------ aggregates alone

EventTypesOf(kind) ==
    CASE kind = "User" -> {"UserRegistered", "UserProfileUpdated", "UserDeactivated"}
      [] kind = "Product" -> {"ProductCreated", "ProductUpdated", "ProductReactivated"}
      [] kind = "Order" -> {"OrderCreated", "OrderConfirmed", "OrderPaymentFailed"}
      [] kind = "Payment" -> {"PaymentRequested", "PaymentProcessed", "PaymentCancelled"}
      [] kind = "Inventory" -> {"InventoryItemCreated", "StockUpdated", "LowStockAlert"}

NoSubject == [op |-> "none", kind |-> "none", n |-> 0, ag |-> NoAgg]

\* An event type none of the aggregates' switches has a case for (a stream
\* written by a later version of a service).
UnknownEventType == "LoyaltyPointsGranted"

\* The history of an aggregate with the given event types, as domain events
\* or as the StoredEvents getEvents returns.
History(types, shape) ==
    [k \in 1..Len(types) |-> [Event(types[k], 1, 15, <<0, k>>) EXCEPT !.shape = shape]]

\* Aggregate.fromEvents(id, events) on a history of n events of the aggregate,
\* as domain events or as the StoredEvents getEvents returns.
AggFromEvents(kind, n, shape) ==
    /\ \E types \in [1..n -> EventTypesOf(kind) \cup {UnknownEventType}] :
         subject' = [op |-> "fromEvents", kind |-> kind, n |-> n,
                     ag |-> fromEvents(kind, 1, History(types, shape)),
                     types |-> types, shape |-> shape]
    /\ UNCHANGED <<events, pc, tx, h, bus, cmdCount, succeeded, mq, feed>>

\* Repository.findById(id) when getEvents returns a stream of n rows.
AggFindById(kind, n) ==
    /\ subject = NoSubject
    /\ \E types \in [1..n -> EventTypesOf(kind) \cup {UnknownEventType}] :
         subject' = [op |-> "findById", kind |-> kind, n |-> n,
                     ag |-> findById(kind, 1, History(types, "stored")),
                     types |-> types, shape |-> "stored"]
    /\ UNCHANGED <<events, pc, tx, h, bus, cmdCount, succeeded, mq, feed>>

\* Aggregate.create(id, ...)
AggCreate(kind, val) ==
    /\ subject' = [op |-> "create", kind |-> kind, n |-> 0,
                   ag |-> create(kind, 1, val, <<1, 1>>)]
    /\ UNCHANGED <<events, pc, tx, h, bus, cmdCount, succeeded, mq, feed>>

\* aggregate.markEventsAsCommitted()
AggMark ==
    /\ subject.op \in {"fromEvents", "findById", "create"}
    /\ subject.ag # Thrown
    /\ subject' = [subject EXCEPT !.op = "mark", !.ag = markEventsAsCommitted(@)]
    /\ UNCHANGED <<events, pc, tx, h, bus, cmdCount, succeeded, mq, feed>>

\* ------------------------------------------------------------------ command methods alone

OrderIds == {"A", "B"}

\* The command methods called on an aggregate of `kind`. Nothing can be called
\* on an Order or a Product: there is no instance to call it on.
CommandsOf(kind) ==
    CASE kind = "Inventory" ->
            {"reserveStock", "releaseStock", "allocateStock", "updateStock",
             "updateLowStockThreshold"}
      [] kind = "Payment" -> {"processPayment", "markAsFailed", "refund", "cancel"}
      [] kind = "User" ->
            {"updateProfile", "changePassword", "verifyEmail", "deactivate", "reactivate",
             "addAddress", "updateAddress", "removeAddress"}
      [] OTHER -> {}

\* The arguments the calls are made with.
CmdCreateValues(kind) ==
    CASE kind = "Inventory" -> {5, 15}
      [] kind = "Payment" -> {15}
      [] OTHER -> {0}

OrderIdsFor(op) ==
    IF op \in {"reserveStock", "releaseStock", "allocateStock"} THEN OrderIds ELSE {"A"}

QuantitiesFor(op) ==
    CASE op \in {"reserveStock", "allocateStock"} -> {0, 3, 4, 5}
      [] op = "updateStock" -> {0, 5, 15}
      [] op = "updateLowStockThreshold" -> {-1, 3}
      [] op = "refund" -> {15, 20}
      [] op \in {"updateAddress", "removeAddress"} -> {1, 2}
      [] OTHER -> {0}

\* A command of the earlier kind (the aggregate, or DomainError) as the
\* outcome of a call.
Outcome(ag, result) == IF result = DomainError THEN Raise(ag) ELSE Return(result)

\* aggregate.<op>(...) for the c-th call on the aggregate.
Invoke(op, ag, orderId, quantity, c) ==
    CASE op = "reserveStock" -> reserveStock(ag, orderId, quantity, c)
      [] op = "releaseStock" -> releaseStock(ag, orderId, c)
      [] op = "allocateStock" -> allocateStock(ag, orderId, quantity, c)
      [] op = "updateStock" -> Return(updateStock(ag, quantity, c))
      [] op = "updateLowStockThreshold" -> updateLowStockThreshold(ag, quantity, c)
      [] op = "processPayment" -> processPayment(ag, c)
      [] op = "markAsFailed" -> markAsFailed(ag, c)
      [] op = "refund" -> refund(ag, quantity, c)
      [] op = "cancel" -> Outcome(ag, cancel(ag, c))
      [] op = "updateProfile" -> Outcome(ag, updateProfile(ag, c))
      [] op = "deactivate" -> Outcome(ag, deactivate(ag, c))
      [] op = "changePassword" -> Outcome(ag, changePassword(ag, c))
      [] op = "verifyEmail" -> Outcome(ag, verifyEmail(ag, c))
      [] op = "reactivate" -> Outcome(ag, reactivate(ag, c))
      [] op = "addAddress" -> Outcome(ag, addAddress(ag, c))
      [] op = "updateAddress" -> Outcome(ag, updateAddress(ag, quantity, c))
      [] op = "removeAddress" -> Outcome(ag, removeAddress(ag, quantity, c))

\* Aggregate.create(id, ...): the aggregate the calls are then made on. When
\* the constructor throws there is none.
CmdCreate(kind, val) ==
    /\ subject = NoSubject
    /\ LET created == create(kind, 1, val, <<0, 1>>) IN
         subject' = [op |-> "create", kind |-> kind, n |-> 0, ag |-> created,
                     before |-> NoAgg, threw |-> (created = Thrown),
                     orderId |-> "A", quantity |-> val, called |-> {},
                     applied |-> IF created = Thrown THEN 0 ELSE 1]
    /\ UNCHANGED <<events, pc, tx, h, bus, cmdCount, succeeded, mq, feed>>

\* One call of a command method; `before` keeps the aggregate as it was when
\* the call was made, `called` the methods called so far, `applied` counts the
\* events applied to the aggregate (one per event create or a command emits).
CmdCall(op, orderId, quantity) ==
    /\ subject # NoSubject
    /\ subject.ag # Thrown
    /\ subject.n < MaxCalls
    /\ op \in CommandsOf(subject.kind)
    /\ LET c == subject.n + 1
           r == Invoke(op, subject.ag, orderId, quantity, c)
       IN subject' = [op |-> op, kind |-> subject.kind, n |-> c, ag |-> r.ag,
                      before |-> subject.ag, threw |-> r.threw,
                      orderId |-> orderId, quantity |-> quantity,
                      called |-> subject.called \cup {op},
                      applied |-> subject.applied
                                    + Len(r.ag.uncommittedEvents)
                                    - Len(subject.ag.uncommittedEvents)]
    /\ UNCHANGED <<events, pc, tx, h, bus, cmdCount, succeeded, mq, feed>>

AllCommands == UNION {CommandsOf(kind) : kind \in Kinds}

\* ------------------------------------------------------------------ event bus, consuming side

BusEventTypes == {"OrderCreated", "PaymentProcessed"}

\* No service process: the durable queue `<service>-events` exists at the broker.
NoBus ==
    [phase |-> "down", handlers |-> [t \in BusEventTypes |-> <<>>], msgs |-> <<>>]

\* A persistent message the 'events' exchange routed to the queue (binding
\* '#'): the JSON of an event, as publish writes it, or content that does not
\* parse.
QueuedMessage(body, eventType) ==
    [body |-> body, eventType |-> eventType, state |-> "ready", deliveries |-> 0,
     next |-> 0, log |-> <<>>, detached |-> FALSE, requeued |-> FALSE,
     received |-> FALSE, failed |-> FALSE]

\* JSON.parse(msg.content.toString()) and Event.fromJSON return.
Decodes(m) == m.body = "event"

\* this.handlers.get(event.eventType): the array subscribe pushes to.
HandlersFor(b, m) == b.handlers[m.eventType]

\* handleEvent looking the handlers up anew at every turn of its loop.
DispatchingCurrentHandlers(b, m) == HandlersFor(b, m)

\* `this.handlers.get(event.eventType) || []`: the loop runs over the Map's
\* own array, which sees later pushes, or, when the type has no entry yet,
\* over a fresh empty array that no subscribe will ever push to.
Dispatching(b, m) == IF m.detached THEN <<>> ELSE HandlersFor(b, m)

Registrations(b) == Len(b.handlers["OrderCreated"]) + Len(b.handlers["PaymentProcessed"])

RECURSIVE Deliveries(_)
Deliveries(msgs) ==
    IF msgs = <<>> THEN 0 ELSE msgs[1].deliveries + Deliveries(Tail(msgs))

\* The catch block dropping the message instead of requeueing it.
NackWithoutRequeue(m) == [m EXCEPT !.state = "dropped"]

\* this.channel?.nack(msg, false, true): back to the queue.
Nack(m) == [m EXCEPT !.state = "ready"]

\* this.channel?.ack(msg) once handleEvent has returned: the message leaves
\* the queue for good; `received` keeps whether any handler was passed it
\* during this last delivery, `failed` whether one of them threw.
Ack(m) ==
    [m EXCEPT !.state = "acked", !.received = (m.log # <<>>),
              !.failed = (\E k \in 1..Len(m.log) : m.log[k].threw),
              !.next = 0, !.log = <<>>, !.detached = FALSE]

\* The consume callback up to its first await: the message is delivered
\* (unacknowledged), decoded, and handleEvent starts; a decoding error goes to
\* the catch block.
OnMessage(b, m) ==
    LET delivered == [m EXCEPT !.state = "unacked", !.deliveries = @ + 1,
                               !.next = 1, !.log = <<>>]
    IN IF Decodes(m)
       THEN [delivered EXCEPT !.detached = (HandlersFor(b, m) = <<>>)]
       ELSE Nack(delivered)

\* handleEvent with the handler's error thrown on to the consume callback,
\* whose catch block requeues the message.
AfterHandlerRethrowing(m, handler, threw) ==
    LET called == [m EXCEPT !.log = Append(@, [handler |-> handler, threw |-> threw])]
    IN IF threw THEN Nack(called) ELSE [called EXCEPT !.next = @ + 1]

\* handleEvent, one turn of its loop: `await handler(event)` inside try/catch;
\* an error is logged and the loop goes on with the next handler.
AfterHandler(m, handler, threw) ==
    [m EXCEPT !.log = Append(@, [handler |-> handler, threw |-> threw]),
              !.next = @ + 1]

\* new RabbitMQEventBus(...): the service process starts; no handler is registered.
BusStart ==
    /\ mq.phase = "down"
    /\ mq' = [mq EXCEPT !.phase = "constructed"]
    /\ UNCHANGED <<events, pc, tx, h, bus, cmdCount, succeeded, subject, feed>>

\* connect(): channel, exchanges, queue, binding and channel.consume.
BusConnect ==
    /\ mq.phase = "constructed"
    /\ mq' = [mq EXCEPT !.phase = "up"]
    /\ UNCHANGED <<events, pc, tx, h, bus, cmdCount, succeeded, subject, feed>>

\* subscribe(eventType, handler): pushes the handler to the type's array. It
\* needs no channel, so it may be called before or after connect(). The
\* process's handlers are numbered in the order of their registration.
\* (unsubscribe has no caller in the repository: the arrays only grow.)
subscribe(eventType, handler) ==
    /\ mq.phase \in {"constructed", "up"}
    /\ Registrations(mq) < MaxHandlers
    /\ handler = Registrations(mq) + 1
    /\ mq' = [mq EXCEPT !.handlers[eventType] = Append(@, handler)]
    /\ UNCHANGED <<events, pc, tx, h, bus, cmdCount, succeeded, subject, feed>>

\* Some service's publish (or any other client of the broker) routes a
\* message to the queue.
BusPublish(body, eventType) ==
    /\ Len(mq.msgs) < MaxMessages
    /\ mq' = [mq EXCEPT !.msgs = Append(@, QueuedMessage(body, eventType))]
    /\ UNCHANGED <<events, pc, tx, h, bus, cmdCount, succeeded, subject, feed>>

\* The broker delivers a ready message to the consumer.
BusDeliver(i) ==
    /\ mq.phase = "up"
    /\ mq.msgs[i].state = "ready"
    /\ Deliveries(mq.msgs) < MaxDeliveries
    /\ mq' = [mq EXCEPT !.msgs[i] = OnMessage(mq, @)]
    /\ UNCHANGED <<events, pc, tx, h, bus, cmdCount, succeeded, subject, feed>>

\* handleEvent: the next handler of the (live) array is awaited; it returns or throws.
BusHandle(i, threw) ==
    /\ mq.phase = "up"
    /\ mq.msgs[i].state = "unacked"
    /\ mq.msgs[i].next <= Len(Dispatching(mq, mq.msgs[i]))
    /\ mq' = [mq EXCEPT !.msgs[i] =
                 AfterHandler(@, Dispatching(mq, mq.msgs[i])[mq.msgs[i].next], threw)]
    /\ UNCHANGED <<events, pc, tx, h, bus, cmdCount, succeeded, subject, feed>>

\* The message acknowledged as soon as it is delivered, before handleEvent.
BusAckOnDelivery(i) ==
    /\ mq.phase = "up"
    /\ mq.msgs[i].state = "unacked"
    /\ mq' = [mq EXCEPT !.msgs[i] = Ack(@)]
    /\ UNCHANGED <<events, pc, tx, h, bus, cmdCount, succeeded, subject, feed>>

\* handleEvent has returned: the callback acknowledges the message.
BusAck(i) ==
    /\ mq.phase = "up"
    /\ mq.msgs[i].state = "unacked"
    /\ mq.msgs[i].next > Len(Dispatching(mq, mq.msgs[i]))
    /\ mq' = [mq EXCEPT !.msgs[i] = Ack(@)]
    /\ UNCHANGED <<events, pc, tx, h, bus, cmdCount, succeeded, subject, feed>>

\* The process dies or its channel closes: the broker puts every
\* unacknowledged message back on the queue, the handlers go with the process.
BusCrash ==
    /\ mq.phase \in {"constructed", "up"}
    /\ mq' = [mq EXCEPT !.phase = "down",
                        !.handlers = [t \in BusEventTypes |-> <<>>],
                        !.msgs = [i \in 1..Len(mq.msgs) |->
                                    IF mq.msgs[i].state = "unacked"
                                    THEN [mq.msgs[i] EXCEPT !.state = "ready", !.requeued = TRUE,
                                                            !.next = 0, !.log = <<>>,
                                                            !.detached = FALSE]
                                    ELSE mq.msgs[i]]]
    /\ UNCHANGED <<events, pc, tx, h, bus, cmdCount, succeeded, subject, feed>>

\* ------------------------------------------------------------------ global feed

FeedAggregates == {"a", "b"}

PageLimits == {1, 2}

\* The events table as getAllEvents sees it, and a reader: the fromPosition
\* it will pass next, the limit it reads with, and the ids it was returned.
NoFeed ==
    [rows |-> {}, clock |-> 1, cursor |-> 0, limit |-> 0, pages |-> 0,
     returned |-> <<>>, done |-> FALSE]

\* INSERT INTO events: `id` is the store-assigned gen_random_uuid() (ids
\* compare as numbers here), `timestamp` is DEFAULT NOW().
FeedRow(aggregateId, id, version, timestamp) ==
    [id |-> id, aggregateId |-> aggregateId, version |-> version, timestamp |-> timestamp]

\* ORDER BY timestamp ASC, version ASC
OrderedBefore(r1, r2) ==
    \/ r1.timestamp < r2.timestamp
    \/ r1.timestamp = r2.timestamp /\ r1.version <= r2.version

\* WHERE id > $1
AfterPosition(rows, fromPosition) == {r \in rows : r.id > fromPosition}

\* getAllEvents(fromPosition, limit): the results the query may give. Rows
\* with equal timestamp and version come in either order.
getAllEvents(rows, fromPosition, limit) ==
    LET matching == AfterPosition(rows, fromPosition)
        k == IF Cardinality(matching) < limit THEN Cardinality(matching) ELSE limit
    IN {page \in [1..k -> matching] :
          /\ \A i, j \in 1..k : i < j => page[i] # page[j] /\ OrderedBefore(page[i], page[j])
          /\ \A r \in matching :
                (\A i \in 1..k : page[i] # r) => \A i \in 1..k : OrderedBefore(page[i], r)}

\* saveEvents inserts a row; `tick` tells whether the clock has advanced since
\* the previous insert.
FeedInsert(aggregateId, id, tick) ==
    /\ feed.pages = 0
    /\ Cardinality(feed.rows) < MaxRows
    /\ \A r \in feed.rows : r.id # id
    /\ LET version == Cardinality({r \in feed.rows : r.aggregateId = aggregateId}) + 1
           timestamp == feed.clock + tick
       IN feed' = [feed EXCEPT !.rows = @ \cup {FeedRow(aggregateId, id, version, timestamp)},
                               !.clock = timestamp]
    /\ UNCHANGED <<events, pc, tx, h, bus, cmdCount, succeeded, subject, mq>>

\* The reader asks for the next page, passing the id of the last event of
\* the previous page; an empty page ends the reading.
FeedReadPage(limit) ==
    /\ feed.rows # {}
    /\ ~feed.done
    /\ feed.pages < MaxPages
    /\ feed.limit \in {0, limit}
    /\ \E page \in getAllEvents(feed.rows, feed.cursor, limit) :
         feed' = [feed EXCEPT !.limit = limit,
                              !.pages = @ + 1,
                              !.returned = @ \o [i \in 1..Len(page) |-> page[i].id],
                              !.cursor = IF page = <<>> THEN @ ELSE page[Len(page)].id,
                              !.done = (page = <<>>)]
    /\ UNCHANGED <<events, pc, tx, h, bus, cmdCount, succeeded, subject, mq>>

\* ------------------------------------------------------------------ specifications

Init ==
    /\ events = <<>>
    /\ pc = [p \in Procs |-> "idle"]
    /\ tx = [p \in Procs |-> IdleTx]
    /\ h = [p \in Procs |-> IdleH]
    /\ bus = <<>>
    /\ cmdCount = 0
    /\ succeeded = [id \in Ids |-> 0]
    /\ subject = NoSubject
    /\ mq = NoBus
    /\ feed = NoFeed

\* The events table outlives the services (CREATE TABLE IF NOT EXISTS) and is
\* also written through the schema's save_events function: the log already
\* holds the stream of aggregate 0, its creation event at version 1.
SeedRow(kind) ==
    [aggregateId |-> 0, eventType |-> CreationType(kind), val |-> 15,
     version |-> 1, eid |-> <<0, 1>>]

InitSeeded ==
    /\ events \in {<<SeedRow(kind)>> : kind \in Kinds}
    /\ pc = [p \in Procs |-> "idle"]
    /\ tx = [p \in Procs |-> IdleTx]
    /\ h = [p \in Procs |-> IdleH]
    /\ bus = <<>>
    /\ cmdCount = 0
    /\ succeeded = [id \in Ids |-> 0]
    /\ subject = NoSubject
    /\ mq = NoBus
    /\ feed = NoFeed

Next ==
    \E p \in Procs :
        \/ \E kind \in Kinds : \E val \in CreateValues(kind) : StartCreate(p, kind, val)
        \/ \E op \in UpdateOps : \E id \in Ids : \E val \in UpdateValues(op) :
              StartUpdate(p, op, id, val)
        \/ TxRead(p)
        \/ TxInsert(p)
        \/ TxFails(p)
        \/ TxCommit(p)
        \/ Publish(p)
        \/ \E routed \in BOOLEAN : PublishFails(p, routed)
        \/ Finish(p)

\* The payment service: its command handlers over the shared store.
NextPay ==
    \E p \in Procs :
        \/ StartCreate(p, "Payment", 0)
        \/ \E id \in Ids : \E gateway \in Gateways : StartStripe(p, id, gateway)
        \/ \E op \in {"cancelPayment", "refundPayment"} : \E id \in Ids :
              StartUpdate(p, op, id, 0)
        \/ TxRead(p)
        \/ TxInsert(p)
        \/ TxFails(p)
        \/ TxCommit(p)
        \/ Publish(p)
        \/ \E routed \in BOOLEAN : PublishFails(p, routed)
        \/ Recover(p)
        \/ Finish(p)

NextStore ==
    \E p \in Procs :
        \/ \E aggregateId \in StoreIds : \E n \in 0..MaxBatch :
              \E expectedVersion \in 0..(CurrentVersion(aggregateId) + 1) :
                 StoreCall(p, aggregateId, n, expectedVersion)
        \/ TxRead(p)
        \/ TxInsert(p)
        \/ TxFails(p)
        \/ TxCommit(p)
        \/ Finish(p)

NextAgg ==
    \/ \E kind \in Kinds : \E n \in 0..MaxReplay : \E shape \in {"domain", "stored"} :
          AggFromEvents(kind, n, shape)
    \/ \E kind \in Kinds : \E n \in 1..MaxReplay : AggFindById(kind, n)
    \/ \E kind \in Kinds : \E val \in CreateValues(kind) : AggCreate(kind, val)
    \/ AggMark

NextCmd ==
    \/ \E kind \in Kinds : \E val \in CmdCreateValues(kind) : CmdCreate(kind, val)
    \/ \E op \in AllCommands : \E orderId \in OrderIdsFor(op) :
          \E quantity \in QuantitiesFor(op) : CmdCall(op, orderId, quantity)

NextBus ==
    \/ BusStart
    \/ BusConnect
    \/ \E eventType \in BusEventTypes : \E handler \in 1..MaxHandlers : subscribe(eventType, handler)
    \/ \E eventType \in BusEventTypes : BusPublish("event", eventType)
    \/ BusPublish("garbage", "OrderCreated")
    \/ \E i \in 1..Len(mq.msgs) : BusDeliver(i)
    \/ \E i \in 1..Len(mq.msgs) : \E threw \in BOOLEAN : BusHandle(i, threw)
    \/ \E i \in 1..Len(mq.msgs) : BusAck(i)
    \/ BusCrash

NextFeed ==
    \/ \E aggregateId \in FeedAggregates : \E id \in 1..MaxRows : \E tick \in {0, 1} :
          FeedInsert(aggregateId, id, tick)
    \/ \E limit \in PageLimits : FeedReadPage(limit)

Spec == Init /\ [][Next]_vars

SpecSeeded == InitSeeded /\ [][Next]_vars

SpecStore == Init /\ [][NextStore]_vars

SpecAgg == Init /\ [][NextAgg]_vars

SpecCmd == Init /\ [][NextCmd]_vars

SpecBus == Init /\ [][NextBus]_vars

SpecFeed == Init /\ [][NextFeed]_vars

SpecPay == Init /\ [][NextPay]_vars

\* ------------------------------------------------------------------ properties

InTx(p) == pc[p] \in {"txRead", "txInsert", "txCommit"}

\* The committed rows a call or handler invocation c wrote.
RowsOf(c) == {i \in 1..Len(events) : events[i].eid[1] = c}

\* A saveEvents call that has returned normally after writing rows.
Committed(p) ==
    /\ pc[p] = "done"
    /\ h[p].op = "raw"
    /\ h[p].outcome = "ok"
    /\ RowsOf(h[p].cmd) # {}

\* C1: of two saveEvents calls on the same aggregateId that were both issued
\* with expectedVersion equal to the stream's current maximum version V, at
\* most one commits its events: never have both returned normally with their
\* rows in the stream.
C1_OneWinner ==
    \A p, q \in Procs :
        (/\ p # q
         /\ h[p].id = h[q].id
         /\ h[p].valid /\ h[q].valid
         /\ h[p].loadedMax = h[q].loadedMax
         /\ Committed(p))
        => ~Committed(q)

\* C2: for every aggregateId the versions of the stored rows are exactly
\* 1..n, n the number of rows: no gap and no duplicate.
C2_VersionsContiguous ==
    \A id \in Ids :
        /\ {events[i].version : i \in RowIndexes(id, 0)} = 1..Cardinality(RowIndexes(id, 0))
        /\ \A i, j \in RowIndexes(id, 0) : events[i].version = events[j].version => i = j

\* C3: a saveEvents call whose expectedVersion differs from the stream's
\* current maximum version when it is read ends with the concurrency conflict
\* and leaves the events table as it was; none of the rows of a call that
\* ended with the conflict is ever in the table.
C3_ConflictStep ==
    \A p \in Procs :
        (/\ pc[p] = "txRead"
         /\ pc'[p] # "txRead"
         /\ CurrentVersion(tx[p].aggregateId) # tx[p].expectedVersion)
        => /\ pc'[p] = "done"
           /\ h'[p].outcome = "conflict"
           /\ tx'[p].pending = <<>>
           /\ events' = events

C3_ConflictPersistsNothing ==
    /\ [][C3_ConflictStep]_vars
    /\ [](\A p \in Procs : h[p].outcome = "conflict" => RowsOf(h[p].cmd) = {})

\* a call issued against a non-empty stream with a stale expectedVersion and a
\* non-empty batch has ended with the conflict
C3_Witness ==
    \E p \in Procs :
        /\ pc[p] = "done"
        /\ h[p].op = "raw"
        /\ h[p].outcome = "conflict"
        /\ ~h[p].valid
        /\ h[p].loadedMax > 0

\* A handler invocation that has returned or thrown and not yet been reaped.
Returned(p) == pc[p] = "done" /\ h[p].op # "raw"

InFlight(id) == \E p \in Procs : pc[p] # "idle" /\ h[p].id = id

\* C4: once N command handler invocations on an aggregate have returned
\* normally (and none is in flight), its stream holds exactly N events, with
\* the versions 1..N.
C4_VersionCountsCommands ==
    \A id \in 1..MaxCommands :
        ~InFlight(id) =>
            /\ Cardinality(RowIndexes(id, 0)) = succeeded[id]
            /\ CurrentVersion(id) = succeeded[id]

\* C5: for every aggregate type, the aggregate fromEvents returns has no
\* uncommitted events.
C5_ReplayLeavesNothingUncommitted ==
    (subject.op = "fromEvents" /\ subject.ag # Thrown)
        => getUncommittedEvents(subject.ag) = <<>>

C7_UncontendedCommandSucceeds ==
    \A p \in Procs :
        (/\ Returned(p)
         /\ h[p].op \in UpdateOps
         /\ h[p].loadedMax > 0
         /\ h[p].valid
         /\ ~h[p].interfered)
        => h[p].outcome \notin {"loadError", "conflict", "domainError", "notFound"}

\* C8: a create command for a fresh id, the store and the bus being reachable,
\* returns normally and leaves exactly one event in the aggregate's stream, at
\* version 1 and of the aggregate's creation type.
C8_CreateLeavesOneEvent ==
    \A p \in Procs :
        (/\ Returned(p)
         /\ h[p].op = "create"
         /\ h[p].outcome \notin {"storeError", "busError"})
        => /\ h[p].outcome = "ok"
           /\ Cardinality(RowIndexes(h[p].id, 0)) = 1
           /\ \A i \in RowIndexes(h[p].id, 0) :
                 /\ events[i].version = 1
                 /\ events[i].eventType = CreationType(h[p].kind)

\* C9: a handler publishes an event only after the saveEvents call that
\* persists it has committed: every message on the bus is a committed row, and
\* an invocation whose save failed has published nothing.
C9_PublishOnlyAfterSave ==
    /\ \A k \in 1..Len(bus) : \E i \in 1..Len(events) : events[i].eid = bus[k].eid
    /\ \A p \in Procs :
          h[p].outcome \in {"conflict", "storeError"}
              => \A k \in 1..Len(bus) : bus[k].eid[1] # h[p].cmd

\* one handler has saved, published and returned while another's save failed
C9_Witness ==
    \E p, q \in Procs :
        /\ Returned(p) /\ h[p].outcome = "ok"
        /\ \E k \in 1..Len(bus) : bus[k].eid[1] = h[p].cmd
        /\ Returned(q) /\ h[q].outcome \in {"conflict", "storeError"}
        /\ h[q].op = "create"

CalledOn(kind) == subject # NoSubject /\ subject.kind = kind /\ subject.n >= 1

\* The events the last call pushed to uncommittedEvents.
Emitted ==
    SubSeq(subject.ag.uncommittedEvents,
           Len(subject.before.uncommittedEvents) + 1, Len(subject.ag.uncommittedEvents))

EmittedTypes == {Emitted[k].eventType : k \in 1..Len(Emitted)}

RECURSIVE SumOfQuantity(_)
SumOfQuantity(rs) ==
    IF rs = {} THEN 0
    ELSE LET r == CHOOSE x \in rs : TRUE IN r.quantity + SumOfQuantity(rs \ {r})

\* No Order (and no Product) instance exists in any state of the handlers or
\* of the aggregates alone: the constructor throws before there is one.
NoOrderInstance ==
    /\ \A p \in Procs : h[p].ag.kind \notin {"Order", "Product"}
    /\ subject.ag.kind \notin {"Order", "Product"}

\* The bus never carries two events of one aggregate.
OnePublishedEventPerAggregate ==
    \A i, j \in 1..Len(bus) : bus[i].aggregateId = bus[j].aggregateId => i = j

\* C12: a command method whose precondition fails raises a domain error and
\* leaves the aggregate as it was: status, domain state, version and
\* uncommittedEvents after the call are those before it.
C12_FailedCommandChangesNothing ==
    (subject # NoSubject /\ subject.n >= 1 /\ subject.threw)
        => subject.ag = subject.before

\* reserveStock refused for lack of stock on an inventory that already holds
\* uncommitted events and a reservation
C12_Witness ==
    /\ CalledOn("Inventory")
    /\ subject.op = "reserveStock" /\ subject.threw /\ subject.quantity > 0
    /\ subject.before.reservations # {}
    /\ subject.ag.version = Len(subject.ag.uncommittedEvents)

\* C14: after any sequence of reserveStock, releaseStock and allocateStock
\* commands on an Inventory, reservedStock is the sum of quantity over the
\* reservations that are still present and not allocated.
C14_ReservedStockIsSumOfOpenReservations ==
    (/\ subject # NoSubject /\ subject.kind = "Inventory"
     /\ subject.op \in {"create", "reserveStock", "releaseStock", "allocateStock"}
     /\ subject.called \subseteq {"reserveStock", "releaseStock", "allocateStock"})
        => subject.ag.reservedStock =
              SumOfQuantity({r \in subject.ag.reservations : ~r.isAllocated})

\* C15: allocateStock raises a domain error and emits no event unless the
\* order has a reservation that is not yet allocated (a second allocateStock
\* for an allocated reservation is rejected).
C15_AllocateNeedsUnallocatedReservation ==
    (/\ CalledOn("Inventory") /\ subject.op = "allocateStock"
     /\ ~\E r \in ReservationsOf(subject.before, subject.orderId) : ~r.isAllocated)
        => /\ subject.threw
           /\ subject.ag.uncommittedEvents = subject.before.uncommittedEvents

\* C16: reserveStock(orderId, q, expiresAt) emits a StockReserved event only
\* when q > 0 and availableStock = max(0, currentStock - reservedStock) >= q;
\* otherwise it raises a domain error and emits no event.
C16_ReserveOnlyWithinAvailableStock ==
    (CalledOn("Inventory") /\ subject.op = "reserveStock")
        => LET q == subject.quantity
               availableStock == Max0(subject.before.currentStock - subject.before.reservedStock)
           IN IF q > 0 /\ availableStock >= q
              THEN /\ ~subject.threw
                   /\ Len(Emitted) = 1
                   /\ Emitted[1].eventType = "StockReserved"
                   /\ Emitted[1].val = q /\ Emitted[1].orderId = subject.orderId
              ELSE /\ subject.threw
                   /\ subject.ag.uncommittedEvents = subject.before.uncommittedEvents

\* stock 5 with 4 units reserved: reserving 3 for another order is refused
C16_Witness ==
    /\ CalledOn("Inventory")
    /\ subject.op = "reserveStock" /\ subject.quantity = 3 /\ subject.threw
    /\ subject.before.currentStock = 5 /\ subject.before.reservedStock = 4
    /\ \A r \in subject.before.reservations : r.orderId # subject.orderId

\* C17: an Inventory command (updateStock, reserveStock, allocateStock) that
\* leaves availableStock at zero also emits an OutOfStockAlert, and one that
\* leaves it above zero but at or below lowStockThreshold a LowStockAlert.
C17_CommandsRaiseStockAlerts ==
    (/\ CalledOn("Inventory")
     /\ subject.op \in {"updateStock", "reserveStock", "allocateStock"}
     /\ ~subject.threw)
        => LET availableStock == Max0(subject.ag.currentStock - subject.ag.reservedStock) IN
           /\ availableStock = 0 => "OutOfStockAlert" \in EmittedTypes
           /\ (0 < availableStock /\ availableStock <= subject.ag.lowStockThreshold)
                 => "LowStockAlert" \in EmittedTypes

\* C21: a Payment's status changes only by pending -> completed,
\* pending -> failed, pending -> cancelled and completed -> refunded; no
\* command changes the status of a failed, cancelled or refunded payment.
C21_PaymentStatusTransitions ==
    CalledOn("Payment")
        => /\ \/ subject.ag.status = subject.before.status
              \/ <<subject.before.status, subject.ag.status>> \in
                    {<<"pending", "completed">>, <<"pending", "failed">>,
                     <<"pending", "cancelled">>, <<"completed", "refunded">>}
           /\ subject.before.status \in {"failed", "cancelled", "refunded"}
                 => subject.ag.status = subject.before.status

\* a payment processed and refunded, on which a further command is refused
C21_Witness ==
    /\ CalledOn("Payment")
    /\ subject.before.status = "refunded" /\ subject.threw
    /\ Len(subject.ag.uncommittedEvents) = 3

\* The aggregate's fields apart from its bookkeeping of events.
DomainState(ag) == [ag EXCEPT !.version = 0, !.uncommittedEvents = <<>>]

\* What the reconstruction the subject went through gives for `types`.
Reconstructed(types) ==
    IF subject.op = "findById"
    THEN findById(subject.kind, 1, History(types, subject.shape))
    ELSE fromEvents(subject.kind, 1, History(types, subject.shape))

KnownTypes(types) == SelectSeq(types, LAMBDA t : t # UnknownEventType)

\* C23: reconstructing an aggregate from a stream that holds an event type
\* the aggregate does not know never raises, in fromEvents and in findById:
\* wherever the known events alone reconstruct, the stream with the unknown
\* event reconstructs as well, to the same domain state.
C23_UnknownEventsSkipped ==
    (/\ subject.op \in {"fromEvents", "findById"}
     /\ \E k \in 1..Len(subject.types) : subject.types[k] = UnknownEventType
     /\ KnownTypes(subject.types) # <<>>
     /\ Reconstructed(KnownTypes(subject.types)) # Thrown)
        => /\ subject.ag # Thrown
           /\ DomainState(subject.ag) = DomainState(Reconstructed(KnownTypes(subject.types)))

\* An aggregate exists in memory, created and possibly commanded.
InMemory ==
    /\ "applied" \in DOMAIN subject
    /\ subject.ag # Thrown

\* C24: for every aggregate, the state reached by create followed by any
\* sequence of successful commands equals the state of fromEvents(id, E), E
\* being the aggregate's uncommitted events after those calls.
C24_ReplayOfEmittedEventsGivesSameState ==
    InMemory
        => LET replayed == fromEvents(subject.kind, 1, getUncommittedEvents(subject.ag)) IN
           /\ replayed # Thrown
           /\ DomainState(replayed) = DomainState(subject.ag)

\* C25: after User.create, getUncommittedEvents returns exactly one event, of
\* type UserRegistered, carrying the email given to create.
C25_UserCreateRecordsUserRegistered ==
    (subject # NoSubject /\ subject.op = "create" /\ subject.kind = "User")
        => /\ subject.ag # Thrown
           /\ Len(getUncommittedEvents(subject.ag)) = 1
           /\ getUncommittedEvents(subject.ag)[1].eventType = "UserRegistered"
           /\ getUncommittedEvents(subject.ag)[1].val = subject.quantity

\* C26: in every reachable aggregate state, version is the number of events
\* applied to the aggregate so far: those folded by fromEvents or emitted by
\* create, plus one for every event emitted by a later command.
C26_VersionCountsAppliedEvents ==
    /\ InMemory => subject.ag.version = subject.applied
    /\ (subject.op \in {"fromEvents", "findById"} /\ subject.ag # Thrown)
          => subject.ag.version = Len(subject.types)

\* C27: after a successful Repository.save the aggregate's uncommittedEvents
\* is empty; after a save that fails (conflict or storage error) the
\* aggregate still holds the uncommitted events it had, at the same version.
C27_SaveClearsUncommittedEvents ==
    \A p \in Procs :
        /\ (pc[p] = "publish" /\ h[p].op # "raw")
              => getUncommittedEvents(h[p].ag) = <<>>
        /\ (pc[p] = "done" /\ h[p].op # "raw" /\ h[p].outcome \in {"conflict", "storeError"})
              => /\ getUncommittedEvents(h[p].ag) # <<>>
                 /\ h[p].ag.version >= Len(getUncommittedEvents(h[p].ag))

\* ------------------------------------------------------------------ event bus properties

\* C28: an event delivered to a consumer that crashed (or whose channel closed)
\* before acknowledging it is redelivered and reaches a handler subscribed
\* after the restart; it is not lost. Here: a decodable message that was put
\* back on the queue by a crash and has since left the queue, while the
\* running process has a handler for its type, was passed to a handler.
C28_RedeliveredEventReachesLateSubscriber ==
    \A i \in 1..Len(mq.msgs) :
        (/\ Decodes(mq.msgs[i])
         /\ mq.msgs[i].requeued
         /\ mq.msgs[i].state = "acked"
         /\ mq.phase = "up"
         /\ HandlersFor(mq, mq.msgs[i]) # <<>>)
            => mq.msgs[i].received

\* While handleEvent runs for a message, the handlers called so far are the
\* first ones registered for its type, in registration order.
DispatchInRegistrationOrder ==
    \A i \in 1..Len(mq.msgs) :
        mq.msgs[i].state = "unacked"
            => /\ Len(mq.msgs[i].log) = mq.msgs[i].next - 1
               /\ Len(mq.msgs[i].log) <= Len(HandlersFor(mq, mq.msgs[i]))
               /\ \A k \in 1..Len(mq.msgs[i].log) :
                     mq.msgs[i].log[k].handler = HandlersFor(mq, mq.msgs[i])[k]

\* A handler call, whether it returns or throws, leaves the message
\* unacknowledged with the loop at the next handler; a message for which a
\* handler threw is acknowledged only when every handler registered for its
\* type was called, in registration order.
HandlerErrorDoesNotEndDispatch ==
    \A i \in 1..Len(mq.msgs) :
        /\ (/\ mq.msgs[i].state = "unacked"
            /\ Len(mq'.msgs[i].log) = Len(mq.msgs[i].log) + 1)
              => /\ mq'.msgs[i].state = "unacked"
                 /\ mq'.msgs[i].next = mq.msgs[i].next + 1
        /\ (/\ mq.msgs[i].state = "unacked"
            /\ mq'.msgs[i].state = "acked"
            /\ \E k \in 1..Len(mq.msgs[i].log) : mq.msgs[i].log[k].threw)
              => /\ Len(mq.msgs[i].log) = Len(HandlersFor(mq, mq.msgs[i]))
                 /\ \A k \in 1..Len(mq.msgs[i].log) :
                       mq.msgs[i].log[k].handler = HandlersFor(mq, mq.msgs[i])[k]

C30_UndecodableMessageStaysQueued ==
    \A i \in 1..Len(mq.msgs) :
        ~Decodes(mq.msgs[i])
            => /\ mq.msgs[i].state = "ready"
               /\ mq.msgs[i].log = <<>>
               /\ ~mq.msgs[i].received

\* An undecodable message that was delivered, requeued and delivered again.
C30_Witness ==
    \E i \in 1..Len(mq.msgs) :
        /\ ~Decodes(mq.msgs[i])
        /\ mq.msgs[i].deliveries >= 2
        /\ mq.msgs[i].state = "ready"

\* ------------------------------------------------------------------ user commands

InactiveUserCommands ==
    {"updateProfile", "changePassword", "verifyEmail", "addAddress", "updateAddress",
     "removeAddress", "deactivate"}

\* C31: after deactivate every User command except reactivate raises and
\* appends no uncommitted event (it leaves the user as it was); reactivate
\* succeeds, and on the reactivated user the commands succeed again, as on
\* any active user (updateAddress and removeAddress for an address the user has).
C31_DeactivatedUserRejectsCommands ==
    CalledOn("User")
        => /\ (~subject.before.isActive /\ subject.op \in InactiveUserCommands)
                 => subject.threw /\ subject.ag = subject.before
           /\ (~subject.before.isActive /\ subject.op = "reactivate")
                 => ~subject.threw /\ subject.ag.isActive
           /\ (/\ subject.before.isActive
               /\ subject.op \in InactiveUserCommands
               /\ subject.op \in {"updateAddress", "removeAddress"}
                     => subject.quantity \in subject.before.addresses)
                 => /\ ~subject.threw
                    /\ Len(Emitted) = 1

\* deactivate, reactivate, and a command that succeeds on the reactivated user.
C31_Witness ==
    /\ CalledOn("User")
    /\ {"deactivate", "reactivate"} \subseteq subject.called
    /\ subject.n = 3
    /\ subject.op = "changePassword"
    /\ ~subject.threw
    /\ Emitted[1].eventType = "UserPasswordChanged"

\* ------------------------------------------------------------------ global feed properties

TimesReturned(id) ==
    Cardinality({k \in 1..Len(feed.returned) : feed.returned[k] = id})

\* C32: reading the global feed page by page with getAllEvents(fromPosition,
\* limit), passing the id of the last event of the previous page as the next
\* fromPosition, returns every stored event exactly once, also when events
\* share a timestamp. Nothing is returned twice, and when the reading has
\* ended nothing is missing.
C32_FeedReturnsEveryEventOnce ==
    /\ \A r \in feed.rows : TimesReturned(r.id) <= 1
    /\ feed.done => \A r \in feed.rows : TimesReturned(r.id) = 1

\* ------------------------------------------------------------------ load, command, save

NoLoadedInventory ==
    \A p \in Procs :
        (h[p].op \in UpdateOps /\ h[p].kind = "Inventory")
            => pc[p] = "done" /\ h[p].outcome \in {"loadError", "notFound"}

\* C35: currentStock and reservedStock of an Inventory are never negative
\* after any sequence of updateStock, reserveStock, releaseStock and
\* allocateStock commands, and an allocateStock never increases currentStock.
C35_StockNeverNegative ==
    (/\ CalledOn("Inventory")
     /\ subject.called \subseteq {"updateStock", "reserveStock", "releaseStock", "allocateStock"})
        => /\ subject.ag.currentStock >= 0
           /\ subject.ag.reservedStock >= 0
           /\ subject.op = "allocateStock"
                 => subject.ag.currentStock <= subject.before.currentStock

\* ------------------------------------------------------------------ events without a handler

\* A message delivered while no handler was registered for its type is passed
\* to no handler, also when one is subscribed before the acknowledgement.
UnhandledEventInvokesNothing ==
    \A i \in 1..Len(mq.msgs) :
        (mq.msgs[i].state = "unacked" /\ mq.msgs[i].detached) => mq.msgs[i].log = <<>>

\* Such a message is next acknowledged (unless the process dies first), and an
\* acknowledged message stays as it is whatever is subscribed later.
UnhandledEventIsAcknowledged ==
    \A i \in 1..Len(mq.msgs) :
        /\ (/\ mq.msgs[i].state = "unacked" /\ mq.msgs[i].detached
            /\ mq'.msgs[i] # mq.msgs[i]
            /\ mq'.phase = "up")
              => mq'.msgs[i].state = "acked" /\ ~mq'.msgs[i].received
        /\ mq.msgs[i].state = "acked" => mq'.msgs[i] = mq.msgs[i]

\* C36: an event delivered while no handler is registered for its type is
\* acknowledged without error and invokes no handler; consumption starts in
\* connect(), and a handler subscribed afterwards does not receive that event.
C36_EventWithoutHandlerIsDropped ==
    []UnhandledEventInvokesNothing /\ [][UnhandledEventIsAcknowledged]_vars

\* An event acknowledged without any handler, and a handler for its type
\* registered in the same process since.
C36_Witness ==
    \E i \in 1..Len(mq.msgs) :
        /\ Decodes(mq.msgs[i])
        /\ mq.msgs[i].state = "acked"
        /\ ~mq.msgs[i].requeued
        /\ ~mq.msgs[i].received
        /\ mq.phase = "up"
        /\ HandlersFor(mq, mq.msgs[i]) # <<>>

\* ------------------------------------------------------------------ acknowledgement

\* Only a decoded message that was delivered is ever acknowledged.
AckedWasDecoded ==
    \A i \in 1..Len(mq.msgs) :
        mq.msgs[i].state = "acked" => Decodes(mq.msgs[i]) /\ mq.msgs[i].deliveries >= 1

\* The acknowledgement comes when every handler of the dispatch has been
\* called, whether or not one threw; afterwards the message is not delivered
\* again and no handler is called for it.
AckedOnceAfterDispatch ==
    \A i \in 1..Len(mq.msgs) :
        /\ mq'.msgs[i].state = "acked" => mq.msgs[i].state \in {"unacked", "acked"}
        /\ (mq.msgs[i].state = "unacked" /\ mq'.msgs[i].state = "acked")
              => /\ [k \in 1..Len(mq.msgs[i].log) |-> mq.msgs[i].log[k].handler]
                      = Dispatching(mq, mq.msgs[i])
                 /\ mq'.msgs[i].failed = (\E k \in 1..Len(mq.msgs[i].log) : mq.msgs[i].log[k].threw)
                 /\ mq'.msgs[i].deliveries = mq.msgs[i].deliveries
        /\ mq.msgs[i].state = "acked"
              => /\ mq'.msgs[i].state = "acked"
                 /\ mq'.msgs[i].deliveries = mq.msgs[i].deliveries
                 /\ mq'.msgs[i].log = <<>>

C38_FailedPublishRoutedNothing ==
    \A p \in Procs :
        h[p].outcome = "busError"
            => \A k \in 1..Len(bus) : bus[k].eid # h[p].raisedFor

\* ------------------------------------------------------------------ payment gateway

\* The event types stored for the payment `id`.
StoredTypes(id) == {events[i].eventType : i \in RowIndexes(id, 0)}

\* processPaymentWithStripe has rethrown its error to the caller.
StripeRethrown(p) ==
    /\ pc[p] = "done"
    /\ h[p].op = "processPaymentWithStripe"
    /\ h[p].recovering

\* C39: when processPaymentWithStripe has failed for an existing payment that
\* was still pending (no PaymentProcessed, PaymentCancelled or PaymentRefunded
\* is stored for it), a PaymentFailed event for that payment is stored by the
\* time the original error is rethrown to the caller.
C39_FailedStripePaymentIsMarkedFailed ==
    \A p \in Procs :
        (/\ StripeRethrown(p)
         /\ "PaymentRequested" \in StoredTypes(h[p].id)
         /\ StoredTypes(h[p].id) \cap
                {"PaymentProcessed", "PaymentCancelled", "PaymentRefunded"} = {})
            => "PaymentFailed" \in StoredTypes(h[p].id)

====
